---- MODULE Spec2Model ----
(***************************************************************************)
(* pylognet: the log registry (pylognet/logger.py), the service boundary   *)
(* (pylognet/server.py) and the client (src/client.py).                    *)
(*                                                                         *)
(* A task is one caller of the registry.  Five specifications:             *)
(*   Spec         the service as shipped: every handler is an `async def`  *)
(*                without an await, so the one thread of the event loop    *)
(*                runs a handler from its first statement to its last      *)
(*                before the next;                                         *)
(*   SpecThreads  Logger called from several threads: a thread switch may  *)
(*                fall between any two statements of the registry;         *)
(*   SpecClient   Client objects against an endpoint that answers with     *)
(*                any status code or not at all;                           *)
(*   SpecOwner    a program that owns the Logger object and keeps what     *)
(*                get_all() returned while it records and clears;          *)
(*   SpecShared   test_client.py against the service: two clients of one   *)
(*                identifier, a thread each, served by the event loop.     *)
(* Callers make one call each and are then joined (test_client.py:25-29).  *)
(***************************************************************************)
EXTENDS Integers, Sequences, FiniteSets, TLC

\* ------------------------------------------------------------ bounds
queue_size == 2              \* Logger(queue_size): capacity of the pending queue
MaxTime == 1                 \* the server clock runs over 0..MaxTime
MaxRecords == queue_size + 1 \* record calls whose line is still remembered
MaxWire == 3                 \* requests the clients send
MaxMessages == 2             \* messages a thread of test_client logs

Tasks == {"t1", "t2"}
Ids == {"svc1", "svc2"}

\* ------------------------------------------------------------ entities
NoEntry == [id |-> "", timestamp |-> "", level |-> "", message |-> ""]

LogEntry(id, timestamp, level, message) ==
    [id |-> id, timestamp |-> timestamp, level |-> level, message |-> message]

\* The submissions the callers make: per identifier one entry carrying a
\* client timestamp and one carrying none.
Entries ==
    { LogEntry(i, "2024-01-01T00:00:00", "INFO", "boot") : i \in Ids } \cup
    { LogEntry(i, "", "ERROR", "hello") : i \in Ids }

Digits == <<"0", "1", "2", "3", "4", "5", "6", "7", "8", "9">>

\* time.strftime("%Y-%m-%d %H:%M:%S", time.localtime()) at clock value n
strftime(n) == "2024-01-01 00:00:0" \o Digits[n + 1]

NoLog == [message |-> "", level |-> "", timestamp |-> ""]

\* Log.__init__(message, level, timestamp) at clock value n
LogInit(message, level, timestamp, n) ==
    [message |-> message, level |-> level,
     timestamp |-> IF timestamp # "" THEN timestamp ELSE strftime(n)]

\* Mutant of LogStr: the level is left out, f"[{timestamp}] {message}".
LogStr_NoLevel(log) == "[" \o log.timestamp \o "] " \o log.message

\* Log.__str__
LogStr(log) == "[" \o log.timestamp \o "] [" \o log.level \o "] " \o log.message

\* The Log that record builds from an entry: Log(entry.message, entry.level)
RecordLog(entry, n) == LogInit(entry.message, entry.level, "", n)

\* [str(log) for log in logs]
RECURSIVE StrAll(_)
StrAll(s) == IF s = <<>> THEN <<>> ELSE <<LogStr(Head(s))>> \o StrAll(Tail(s))

\* ------------------------------------------------------------ dict
\* self.__logs is a dict: an entries table in insertion order whose deleted
\* entries stay behind as holes until the table is rebuilt.
Hole == [key |-> "", ref |-> 0]

Contains(d, k) == \E i \in DOMAIN d : d[i].key = k
IndexOf(d, k) == CHOOSE i \in DOMAIN d : d[i].key = k
DictGet(d, k) == d[IndexOf(d, k)].ref
IsLive(e) == e.key # ""
Live(d) == SelectSeq(d, IsLive)
Used(d) == Len(Live(d))

\* d[k] = r: an existing key keeps its place; a new key goes to the end of
\* the table, which is rebuilt without its holes once its 5 usable entries
\* (a table of 8 slots) are spent.
DictSet(d, k, r) ==
    IF Contains(d, k)
    THEN [d EXCEPT ![IndexOf(d, k)].ref = r]
    ELSE Append(IF Len(d) >= 5 THEN Live(d) ELSE d, [key |-> k, ref |-> r])

\* del d[k]: the entry becomes a hole.  A hole shows only in the position of
\* an iterator over the table, so the holes are kept (keep) while some task
\* iterates and dropped otherwise.
DictDel(d, k, keep) ==
    LET holed == [d EXCEPT ![IndexOf(d, k)] = Hole]
    IN IF keep THEN holed ELSE Live(holed)

\* list(d.keys())
RECURSIVE KeysOf(_)
KeysOf(d) ==
    IF d = <<>> THEN <<>>
    ELSE (IF IsLive(Head(d)) THEN <<Head(d).key>> ELSE <<>>) \o KeysOf(Tail(d))

\* ------------------------------------------------------------ state
VARIABLES
    logs,        \* Logger.__logs: the entries table, key -> reference of a list
    heap,        \* the list objects: reference -> sequence of Log
    log_queue,   \* Logger.__log_queue: the queued raw entries
    now,         \* the server's clock
    pc,          \* per task: the statement it is at
    op,          \* per task: the call it is making
    loc,         \* per task: the locals of the call
    res,         \* per task: how its call ended
    made,        \* per identifier: the lines record returned since its last clear
    pre,         \* per identifier: the length of its list when the callers
                 \* were last joined, -1 when it had none
    client,      \* per Client object: its fields and how its construction ended
    wire,        \* the HTTP requests the clients have sent, in order
    all_logs,    \* a caller's variable bound to what Logger.get_all() returned:
                 \* the object it refers to and what that object held then
    thread,      \* per client: the thread that runs log_messages with it: how
                 \* many of its messages are logged and whether a POST is out
    cleared      \* whether one of the clear operations was ever called

cliVars == <<client, wire>>
vars == <<logs, heap, log_queue, now, pc, op, loc, res, made, pre, client, wire,
          all_logs, thread, cleared>>

NoOp == [name |-> "", entry |-> NoEntry, id |-> ""]
NoIter == [used |-> 0, len |-> 0, pos |-> 0]
NoLoc == [log |-> NoLog, lst |-> 0, it |-> NoIter, out |-> <<>>]
NoRes == [kind |-> "none", line |-> "", lines |-> <<>>, items |-> <<>>]

Returned(line, lines) ==
    [kind |-> "return", line |-> line, lines |-> lines, items |-> <<>>]
ReturnedItems(items) ==
    [kind |-> "return", line |-> "", lines |-> <<>>, items |-> items]
Raised(what) == [kind |-> "raise", line |-> what, lines |-> <<>>, items |-> <<>>]
\* An exception that leaves behind what was written before it.
RaisedAfter(what, items) ==
    [kind |-> "raise", line |-> what, lines |-> <<>>, items |-> items]

\* The references a state holds: those of the table and those in locals.
Refs(d, l) == {d[i].ref : i \in DOMAIN d} \cup {l[t].lst : t \in Tasks}

\* The list objects still referenced.
Collect(h, d, l) == [r \in (DOMAIN h \cap Refs(d, l)) |-> h[r]]

\* A reference no list object has.
NewRef(h) == CHOOSE r \in 1..(Cardinality(DOMAIN h) + 1) : r \notin DOMAIN h

Idle(t) == pc[t] \in {"idle", "done"}

\* Some task holds an iterator over the table.
Iterating == \E t \in Tasks : pc[t] = "items_next"

\* The record calls whose line is remembered or still to come.
Recording == {t \in Tasks : ~Idle(t) /\ op[t].name = "record"}
RECURSIVE SumLen(_, _)
SumLen(f, S) ==
    IF S = {} THEN 0
    ELSE LET x == CHOOSE y \in S : TRUE IN Len(f[x]) + SumLen(f, S \ {x})
Budget == SumLen(made, Ids) + Cardinality(Recording) < MaxRecords

\* ------------------------------------------------------------ settings
\* APISettings.PING_PATH, APISettings.LOG_PATH
PING_PATH == "ping"
LOG_PATH == "log"

Clients == {"cli1", "cli2"}

\* The endpoints the callers give, with and without a trailing slash.
Endpoints == {"http://localhost:8000", "http://localhost:8000/"}

\* The status codes a service answers with.
Statuses == {199, 200, 201, 299, 300, 404, 500}

\* What becomes of a request: a response with a status code, or none at all
\* (requests raises its ConnectionError).
NoResponse == [status |-> 0]
Outcomes == {[status |-> n] : n \in Statuses} \cup {NoResponse}

\* The levels and messages the callers log, and what the client's clock shows.
Levels == {"INFO", "ERROR"}
Messages == {"boot", "hello"}
ClientTimes == {0}

\* datetime.datetime.now().isoformat() at client clock value n
isoformat(n) == "2024-01-01T00:00:0" \o Digits[n + 1]

\* test_client.py, line 19-20: the messages of a client's thread, MaxMessages
\* of them: f"Message {i} from client 1" for i in range(...)
messages(c) ==
    [i \in 1..MaxMessages |->
        "Message " \o Digits[i] \o " from client " \o (IF c = "cli1" THEN "1" ELSE "2")]

\* test_client.py, lines 10-11: the identifier both clients are made with
dummy1 == "svc1"

\* A thread that has logged nothing yet.
NoThread == [i |-> 0, at |-> "idle"]

\* A variable bound to no dict yet.
NoDict == [ref |-> "none", seen |-> <<>>]

NoClient == [state |-> "none", call |-> "none", id |-> "", endpoint |-> "", error |-> "",
             pinged |-> NoResponse, response |-> NoResponse, result |-> "none"]

Init ==
    /\ logs = <<>>
    /\ heap = <<>>
    /\ log_queue = <<>>
    /\ now = 0
    /\ pc = [t \in Tasks |-> "idle"]
    /\ op = [t \in Tasks |-> NoOp]
    /\ loc = [t \in Tasks |-> NoLoc]
    /\ res = [t \in Tasks |-> NoRes]
    /\ made = [i \in Ids |-> <<>>]
    /\ pre = [i \in Ids |-> -1]
    /\ client = [c \in Clients |-> NoClient]
    /\ wire = <<>>
    /\ all_logs = NoDict
    /\ thread = [c \in Clients |-> NoThread]
    /\ cleared = FALSE

\* ------------------------------------------------------------ Logger
\* Logger.retrieve: self.__logs.get(id, [])
Retrieve(d, h, id) == IF Contains(d, id) THEN h[DictGet(d, id)] ELSE <<>>

\* Logger.get_services: list(self.__logs.keys())
GetServices(d) == KeysOf(d)

\* Mutant of GetLogQueue: the messages of the queued entries are returned,
\* [e.message for e in self.__log_queue.queue].
GetLogQueue_Queued(q) == [n \in DOMAIN q |-> q[n].message]

\* Logger.get_log_queue: logs = []; return logs
GetLogQueue(q) == <<>>

\* Mutant of QueuePut: the entry is queued at the head,
\* self.__log_queue.queue.appendleft(entry).
QueuePut_AtHead(q, entry) == <<entry>> \o q

\* Mutant of QueuePut: the entry is not queued.
QueuePut_Skipped(q, entry) == q

\* queue.Queue.put(entry) on a queue below its capacity
QueuePut(q, entry) == Append(q, entry)

\* Mutant of ListAppend: the list is replaced by one of the new log alone,
\* self.__logs[entry.id] = [log].
ListAppend_Alone(s, log) == <<log>>

\* Mutant of ListAppend: the log is inserted at the front, list.insert(0, log).
ListAppend_AtFront(s, log) == <<log>> \o s

\* list.append(log)
ListAppend(s, log) == Append(s, log)

\* record, line 38: self.__log_queue.put(entry).  On a full queue put waits
\* on the queue's not_full condition.
RecordPut(t, entry) ==
    /\ pc[t] = "idle"
    /\ Budget
    /\ op' = [op EXCEPT ![t] = [name |-> "record", entry |-> entry, id |-> entry.id]]
    /\ res' = [res EXCEPT ![t] = NoRes]
    /\ IF Len(log_queue) >= queue_size
       THEN /\ pc' = [pc EXCEPT ![t] = "not_full_wait"]
            /\ UNCHANGED log_queue
       ELSE /\ pc' = [pc EXCEPT ![t] = "record_log"]
            /\ log_queue' = QueuePut(log_queue, entry)
    /\ UNCHANGED <<logs, heap, now, loc, made, pre, client, wire, all_logs, thread, cleared>>

\* record, lines 40-41: log = Log(entry.message, entry.level);
\* if entry.id not in self.__logs
RecordLogCheck(t) ==
    /\ pc[t] = "record_log"
    /\ loc' = [loc EXCEPT ![t].log = RecordLog(op[t].entry, now)]
    /\ pc' = [pc EXCEPT ![t] =
                IF ~Contains(logs, op[t].id) THEN "record_create" ELSE "record_load"]
    /\ UNCHANGED <<logs, heap, log_queue, now, op, res, made, pre, client, wire, all_logs, thread, cleared>>

\* record, line 42: self.__logs[entry.id] = []
RecordCreate(t) ==
    /\ pc[t] = "record_create"
    /\ LET r == NewRef(heap)
       IN /\ logs' = DictSet(logs, op[t].id, r)
          /\ heap' = Collect([x \in DOMAIN heap \cup {r} |->
                                 IF x = r THEN <<>> ELSE heap[x]], logs', loc)
    /\ pc' = [pc EXCEPT ![t] = "record_load"]
    /\ UNCHANGED <<log_queue, now, op, loc, res, made, pre, client, wire, all_logs, thread, cleared>>

\* record, line 44, the subscript: self.__logs[entry.id]
RecordLoad(t) ==
    /\ pc[t] = "record_load"
    /\ IF Contains(logs, op[t].id)
       THEN /\ loc' = [loc EXCEPT ![t].lst = DictGet(logs, op[t].id)]
            /\ pc' = [pc EXCEPT ![t] = "record_append"]
            /\ UNCHANGED res
       ELSE /\ loc' = [loc EXCEPT ![t] = NoLoc]
            /\ pc' = [pc EXCEPT ![t] = "done"]
            /\ res' = [res EXCEPT ![t] = Raised("KeyError")]
    /\ UNCHANGED <<logs, heap, log_queue, now, op, made, pre, client, wire, all_logs, thread, cleared>>

\* record, lines 44-45: .append(log); return str(log)
RecordAppend(t) ==
    /\ pc[t] = "record_append"
    /\ loc' = [loc EXCEPT ![t] = NoLoc]
    /\ heap' = Collect([heap EXCEPT ![loc[t].lst] = ListAppend(@, loc[t].log)],
                       logs, loc')
    /\ pc' = [pc EXCEPT ![t] = "done"]
    /\ res' = [res EXCEPT ![t] = Returned(LogStr(loc[t].log), <<>>)]
    /\ made' = [made EXCEPT ![op[t].id] = Append(@, LogStr(loc[t].log))]
    /\ UNCHANGED <<logs, log_queue, now, op, pre, client, wire, all_logs, thread, cleared>>

\* Mutant of RetrieveLogs: retrieve stores the default it returns,
\* self.__logs.setdefault(id, []).
RetrieveLogs_SetDefault(t, id) ==
    /\ pc[t] = "idle"
    /\ op' = [op EXCEPT ![t] = [name |-> "retrieve", entry |-> NoEntry, id |-> id]]
    /\ res' = [res EXCEPT ![t] = Returned("", StrAll(Retrieve(logs, heap, id)))]
    /\ pc' = [pc EXCEPT ![t] = "done"]
    /\ IF Contains(logs, id)
       THEN UNCHANGED <<logs, heap>>
       ELSE LET r == NewRef(heap)
            IN /\ logs' = DictSet(logs, id, r)
               /\ heap' = [x \in DOMAIN heap \cup {r} |->
                              IF x = r THEN <<>> ELSE heap[x]]
    /\ UNCHANGED <<log_queue, now, loc, made, pre, client, wire, all_logs, thread, cleared>>

\* LoggingService.retrieve_logs: [str(log) for log in self.__logger.retrieve(id)]
RetrieveLogs(t, id) ==
    /\ pc[t] = "idle"
    /\ op' = [op EXCEPT ![t] = [name |-> "retrieve", entry |-> NoEntry, id |-> id]]
    /\ res' = [res EXCEPT ![t] = Returned("", StrAll(Retrieve(logs, heap, id)))]
    /\ pc' = [pc EXCEPT ![t] = "done"]
    /\ UNCHANGED <<logs, heap, log_queue, now, loc, made, pre, client, wire, all_logs, thread, cleared>>

\* LoggingService.get_services: self.__logger.get_services()
Services(t) ==
    /\ pc[t] = "idle"
    /\ op' = [op EXCEPT ![t] = [name |-> "get_services", entry |-> NoEntry, id |-> ""]]
    /\ res' = [res EXCEPT ![t] = Returned("", GetServices(logs))]
    /\ pc' = [pc EXCEPT ![t] = "done"]
    /\ UNCHANGED <<logs, heap, log_queue, now, loc, made, pre, client, wire, all_logs, thread, cleared>>

\* Mutant of ClearServiceCheck: the test is missing and the del is reached
\* whether or not id is stored.
ClearServiceCheck_Unguarded(t, id) ==
    /\ pc[t] = "idle"
    /\ cleared' = TRUE
    /\ op' = [op EXCEPT ![t] = [name |-> "clear_service_logs", entry |-> NoEntry, id |-> id]]
    /\ pc' = [pc EXCEPT ![t] = "clear_service_del"]
    /\ res' = [res EXCEPT ![t] = NoRes]
    /\ UNCHANGED <<logs, heap, log_queue, now, loc, made, pre, client, wire, all_logs, thread>>

\* clear_service_logs, line 100: if id in self.__logs
ClearServiceCheck(t, id) ==
    /\ pc[t] = "idle"
    /\ cleared' = TRUE
    /\ op' = [op EXCEPT ![t] = [name |-> "clear_service_logs", entry |-> NoEntry, id |-> id]]
    /\ IF Contains(logs, id)
       THEN /\ pc' = [pc EXCEPT ![t] = "clear_service_del"]
            /\ res' = [res EXCEPT ![t] = NoRes]
            /\ UNCHANGED made
       ELSE /\ pc' = [pc EXCEPT ![t] = "done"]
            /\ res' = [res EXCEPT ![t] = Returned("", <<>>)]
            /\ made' = [made EXCEPT ![id] = <<>>]
    /\ UNCHANGED <<logs, heap, log_queue, now, loc, pre, client, wire, all_logs, thread>>

\* Mutant of ClearServiceDel: the whole mapping is cleared,
\* self.__logs.clear().
ClearServiceDel_ClearsAll(t) ==
    /\ pc[t] = "clear_service_del"
    /\ logs' = <<>>
    /\ heap' = Collect(heap, logs', loc)
    /\ res' = [res EXCEPT ![t] = Returned("", <<>>)]
    /\ made' = [i \in Ids |-> <<>>]
    /\ pc' = [pc EXCEPT ![t] = "done"]
    /\ UNCHANGED <<log_queue, now, op, loc, pre, client, wire, all_logs, thread, cleared>>

\* clear_service_logs, line 101: del self.__logs[id]
ClearServiceDel(t) ==
    /\ pc[t] = "clear_service_del"
    /\ IF Contains(logs, op[t].id)
       THEN /\ logs' = DictDel(logs, op[t].id, Iterating)
            /\ heap' = Collect(heap, logs', loc)
            /\ res' = [res EXCEPT ![t] = Returned("", <<>>)]
       ELSE /\ res' = [res EXCEPT ![t] = Raised("KeyError")]
            /\ UNCHANGED <<logs, heap>>
    /\ made' = [made EXCEPT ![op[t].id] = <<>>]
    /\ pc' = [pc EXCEPT ![t] = "done"]
    /\ UNCHANGED <<log_queue, now, op, loc, pre, client, wire, all_logs, thread, cleared>>

\* Mutant of ClearLogs: only the identifier stored last is removed,
\* self.__logs.popitem().
ClearLogs_PopItem(t) ==
    /\ pc[t] = "idle"
    /\ cleared' = TRUE
    /\ op' = [op EXCEPT ![t] = [name |-> "clear_logs", entry |-> NoEntry, id |-> ""]]
    /\ logs' = IF logs = <<>> THEN logs ELSE SubSeq(logs, 1, Len(logs) - 1)
    /\ heap' = Collect(heap, logs', loc)
    /\ made' = [i \in Ids |-> <<>>]
    /\ res' = [res EXCEPT ![t] = Returned("", <<>>)]
    /\ pc' = [pc EXCEPT ![t] = "done"]
    /\ UNCHANGED <<log_queue, now, loc, pre, client, wire, all_logs, thread>>

\* clear_logs: self.__logs.clear()
ClearLogs(t) ==
    /\ pc[t] = "idle"
    /\ cleared' = TRUE
    /\ op' = [op EXCEPT ![t] = [name |-> "clear_logs", entry |-> NoEntry, id |-> ""]]
    /\ logs' = <<>>
    /\ heap' = Collect(heap, logs', loc)
    /\ made' = [i \in Ids |-> <<>>]
    /\ res' = [res EXCEPT ![t] = Returned("", <<>>)]
    /\ pc' = [pc EXCEPT ![t] = "done"]
    /\ UNCHANGED <<log_queue, now, loc, pre, client, wire, all_logs, thread>>

\* Mutant of ClearLogQueue: the mapping is cleared with the queue,
\* self.__logs.clear() as well.
ClearLogQueue_AndLogs(t) ==
    /\ pc[t] = "idle"
    /\ cleared' = TRUE
    /\ op' = [op EXCEPT ![t] = [name |-> "clear_log_queue", entry |-> NoEntry, id |-> ""]]
    /\ log_queue' = <<>>
    /\ logs' = <<>>
    /\ heap' = Collect(heap, logs', loc)
    /\ made' = [i \in Ids |-> <<>>]
    /\ res' = [res EXCEPT ![t] = Returned("", <<>>)]
    /\ pc' = [pc EXCEPT ![t] = "done"]
    /\ UNCHANGED <<now, loc, pre, client, wire, all_logs, thread>>

\* clear_log_queue: self.__log_queue.queue.clear(), on the deque itself: no
\* waiter of not_full is notified.
ClearLogQueue(t) ==
    /\ pc[t] = "idle"
    /\ cleared' = TRUE
    /\ op' = [op EXCEPT ![t] = [name |-> "clear_log_queue", entry |-> NoEntry, id |-> ""]]
    /\ log_queue' = <<>>
    /\ res' = [res EXCEPT ![t] = Returned("", <<>>)]
    /\ pc' = [pc EXCEPT ![t] = "done"]
    /\ UNCHANGED <<logs, heap, now, loc, made, pre, client, wire, all_logs, thread>>

\* LoggingService.get_log_queue: self.__logger.get_log_queue()
LogQueue(t) ==
    /\ pc[t] = "idle"
    /\ op' = [op EXCEPT ![t] = [name |-> "get_log_queue", entry |-> NoEntry, id |-> ""]]
    /\ res' = [res EXCEPT ![t] = Returned("", GetLogQueue(log_queue))]
    /\ pc' = [pc EXCEPT ![t] = "done"]
    /\ UNCHANGED <<logs, heap, log_queue, now, loc, made, pre, client, wire, all_logs, thread, cleared>>

\* What a dict d of lists holds: its identifiers in their order, each with
\* the lines of its list.
Content(d, h) ==
    [n \in DOMAIN KeysOf(d) |->
        [id |-> KeysOf(d)[n], lines |-> StrAll(h[DictGet(d, KeysOf(d)[n])])]]

\* What the object a variable refers to holds now.  Logger.__init__ makes the
\* one dict self.__logs and no statement binds the field again: clear() and
\* del change that dict in place.
Deref(v) == IF v.ref = "self.__logs" THEN Content(logs, heap) ELSE <<>>

\* Logger.get_all, called on the Logger object: return self.__logs, the dict
\* itself; the caller binds it to a variable.
GetAll(t) ==
    /\ pc[t] = "idle"
    /\ op' = [op EXCEPT ![t] = [name |-> "Logger.get_all", entry |-> NoEntry, id |-> ""]]
    /\ all_logs' = [ref |-> "self.__logs", seen |-> Content(logs, heap)]
    /\ res' = [res EXCEPT ![t] = ReturnedItems(Content(logs, heap))]
    /\ pc' = [pc EXCEPT ![t] = "done"]
    /\ UNCHANGED <<logs, heap, log_queue, now, loc, made, pre, client, wire, thread, cleared>>

\* iter(self.__logs.items()): the iterator remembers the size of the dict,
\* counts the items it has yet to give and keeps its place in the table.
ItemsIter(d) == [used |-> Used(d), len |-> Used(d), pos |-> 0]

\* The places of the table after the iterator's that hold an entry.
Ahead(d, it) == {n \in DOMAIN d : n > it.pos /\ IsLive(d[n])}

\* LoggingService.get_all, lines 153-155: all_logs = self.__logger.get_all(),
\* the dict itself, and the start of the loop over all_logs.items()
GetAllItems(t) ==
    /\ pc[t] = "idle"
    /\ op' = [op EXCEPT ![t] = [name |-> "get_all", entry |-> NoEntry, id |-> ""]]
    /\ loc' = [loc EXCEPT ![t].it = ItemsIter(logs)]
    /\ res' = [res EXCEPT ![t] = NoRes]
    /\ pc' = [pc EXCEPT ![t] = "items_next"]
    /\ UNCHANGED <<logs, heap, log_queue, now, made, pre, client, wire, all_logs, thread, cleared>>

\* Logger.export, lines 116-120: the folder, the time stamp of the file names
\* and the start of the loop over self.__logs.items()
ExportItems(t) ==
    /\ pc[t] = "idle"
    /\ op' = [op EXCEPT ![t] = [name |-> "export", entry |-> NoEntry, id |-> ""]]
    /\ loc' = [loc EXCEPT ![t].it = ItemsIter(logs)]
    /\ res' = [res EXCEPT ![t] = NoRes]
    /\ pc' = [pc EXCEPT ![t] = "items_next"]
    /\ UNCHANGED <<logs, heap, log_queue, now, made, pre, client, wire, all_logs, thread, cleared>>

\* The table once task t has ended its loop: rebuilt unless another task
\* iterates.
Settled(d, t) ==
    IF \E u \in Tasks \ {t} : pc[u] = "items_next" THEN d ELSE Live(d)

\* One round of `for id, logs in ....items()`: the iterator's next item, and
\* with it the loop's body: server.py line 155, [str(log) for log in logs],
\* or logger.py lines 121-124, the file of id written line by line.  A list
\* grows at its end only, so reading it element by element gives a list the
\* object held when its last element was read.
ItemsNext(t) ==
    /\ pc[t] = "items_next"
    /\ LET it == loc[t].it
           ahead == Ahead(logs, it)
           n == CHOOSE m \in ahead : \A k \in ahead : m <= k
       IN IF it.used # Used(logs)
          THEN /\ res' = [res EXCEPT ![t] = RaisedAfter(
                     "RuntimeError: dictionary changed size during iteration",
                     IF op[t].name = "export" THEN loc[t].out ELSE <<>>)]
               /\ pc' = [pc EXCEPT ![t] = "done"]
               /\ loc' = [loc EXCEPT ![t] = NoLoc]
               /\ logs' = Settled(logs, t)
          ELSE IF ahead = {}
          THEN /\ res' = [res EXCEPT ![t] = ReturnedItems(loc[t].out)]
               /\ pc' = [pc EXCEPT ![t] = "done"]
               /\ loc' = [loc EXCEPT ![t] = NoLoc]
               /\ logs' = Settled(logs, t)
          ELSE IF it.len = 0
          THEN /\ res' = [res EXCEPT ![t] = RaisedAfter(
                     "RuntimeError: dictionary keys changed during iteration",
                     IF op[t].name = "export" THEN loc[t].out ELSE <<>>)]
               /\ pc' = [pc EXCEPT ![t] = "done"]
               /\ loc' = [loc EXCEPT ![t] = NoLoc]
               /\ logs' = Settled(logs, t)
          ELSE /\ loc' = [loc EXCEPT
                     ![t].it = [it EXCEPT !.pos = n, !.len = it.len - 1],
                     ![t].out = Append(@, [id |-> logs[n].key,
                                           lines |-> StrAll(heap[logs[n].ref])])]
               /\ UNCHANGED <<logs, pc, res>>
    /\ UNCHANGED <<heap, log_queue, now, op, made, pre, client, wire, all_logs, thread, cleared>>

\* ------------------------------------------------------------ Client
\* Client.__init__, lines 28-29: a trailing slash is removed
StripSlash(endpoint) ==
    IF SubSeq(endpoint, Len(endpoint), Len(endpoint)) = "/"
    THEN SubSeq(endpoint, 1, Len(endpoint) - 1)
    ELSE endpoint

\* Client.__create_url
CreateUrl(endpoint, path) == endpoint \o "/" \o path

\* Mutant of CheckResponse: a boolean either way, return response.ok.
CheckResponse_Ok(response) ==
    IF 200 <= response.status /\ response.status < 300
    THEN "True"
    ELSE "False"

\* Mutant of CheckResponse: the upper limit is taken in, status_code <= 300.
CheckResponse_UpTo300(response) ==
    IF 200 <= response.status /\ response.status <= 300
    THEN "True"
    ELSE "Response"

\* Client.__check_response: True for a status code in [200, 300), else the
\* response itself
CheckResponse(response) ==
    IF 200 <= response.status /\ response.status < 300
    THEN "True"
    ELSE "Response"

Request(c, method, url, body) ==
    [client |-> c, method |-> method, url |-> url, body |-> body]

\* Client(logger_id, endpoint): the fields, then one ping; a ping that does
\* not return True raises ConnectionError, and one that gets no response
\* raises out of requests.get.  Either way no Client object comes to be.
ClientInit(c, logger_id, endpoint, outcome) ==
    /\ client[c].state = "none"
    /\ Len(wire) < MaxWire
    /\ LET stripped == StripSlash(endpoint)
           ping == IF outcome = NoResponse THEN "raise" ELSE CheckResponse(outcome)
       IN /\ wire' = Append(wire, Request(c, "GET", CreateUrl(stripped, PING_PATH), NoEntry))
          /\ client' = [client EXCEPT ![c] =
                [state |-> IF ping = "True" THEN "ready" ELSE "failed",
                 call |-> "__init__",
                 id |-> logger_id,
                 endpoint |-> stripped,
                 error |-> IF ping = "True" THEN ""
                           ELSE IF ping = "raise" THEN "requests.ConnectionError"
                           ELSE "ConnectionError",
                 pinged |-> outcome,
                 response |-> outcome,
                 result |-> "none"]]
    /\ UNCHANGED <<logs, heap, log_queue, now, pc, op, loc, res, made, pre, all_logs, thread, cleared>>

\* Client.ping(): one GET of the ping path, classified
ClientPing(c, outcome) ==
    /\ client[c].state = "ready"
    /\ Len(wire) < MaxWire
    /\ wire' = Append(wire, Request(c, "GET", CreateUrl(client[c].endpoint, PING_PATH), NoEntry))
    /\ client' = [client EXCEPT
                     ![c].call = "ping",
                     ![c].response = outcome,
                     ![c].result =
                         IF outcome = NoResponse THEN "raise" ELSE CheckResponse(outcome)]
    /\ UNCHANGED <<logs, heap, log_queue, now, pc, op, loc, res, made, pre, all_logs, thread, cleared>>

\* Mutant of ClientLog: the service's health is checked before each log,
\* self.ping() ahead of the POST.
ClientLog_PingsFirst(c, message, level, time, outcome) ==
    /\ client[c].state = "ready"
    /\ Len(wire) < MaxWire
    /\ wire' = wire \o
          <<Request(c, "GET", CreateUrl(client[c].endpoint, PING_PATH), NoEntry),
            Request(c, "POST", CreateUrl(client[c].endpoint, LOG_PATH),
                    LogEntry(client[c].id, isoformat(time), level, message))>>
    /\ client' = [client EXCEPT
                     ![c].call = "log",
                     ![c].response = outcome,
                     ![c].result =
                         IF outcome = NoResponse THEN "raise" ELSE CheckResponse(outcome)]
    /\ UNCHANGED <<logs, heap, log_queue, now, pc, op, loc, res, made, pre, all_logs, thread, cleared>>

\* Client.log(message, level): one POST of the LogEntry to the log path,
\* classified
ClientLog(c, message, level, time, outcome) ==
    /\ client[c].state = "ready"
    /\ Len(wire) < MaxWire
    /\ wire' = Append(wire, Request(c, "POST", CreateUrl(client[c].endpoint, LOG_PATH),
                                    LogEntry(client[c].id, isoformat(time), level, message)))
    /\ client' = [client EXCEPT
                     ![c].call = "log",
                     ![c].response = outcome,
                     ![c].result =
                         IF outcome = NoResponse THEN "raise" ELSE CheckResponse(outcome)]
    /\ UNCHANGED <<logs, heap, log_queue, now, pc, op, loc, res, made, pre, all_logs, thread, cleared>>

\* ------------------------------------------------------------ responses
\* LoggingService.log, line 119: JSONResponse(content={"log": log},
\* status_code=201), for the line r that record returned
LogResponse(r) == [status_code |-> 201, log |-> r.line]

\* LoggingService.retrieve_logs, lines 142-144: JSONResponse(content={"logs":
\* [...]}, status_code=200), for the lines r of the retrieve
RetrieveResponse(r) == [status_code |-> 200, logs |-> r.lines]

\* LoggingService.ping, line 106: JSONResponse(content={"status": "ok"},
\* status_code=200)
PingResponse == [status |-> 200]

\* ------------------------------------------------------------ callers
\* thread.join(): the callers' calls have ended; they may call again.
Join ==
    /\ \A t \in Tasks : Idle(t)
    /\ \E t \in Tasks : pc[t] = "done"
    /\ pc' = [t \in Tasks |-> "idle"]
    /\ op' = [t \in Tasks |-> NoOp]
    /\ res' = [t \in Tasks |-> NoRes]
    /\ pre' = [i \in Ids |-> IF Contains(logs, i) THEN Len(Retrieve(logs, heap, i)) ELSE -1]
    /\ UNCHANGED <<logs, heap, log_queue, now, loc, made, client, wire, all_logs, thread, cleared>>

\* The server's clock advances.
Tick ==
    /\ now < MaxTime
    /\ now' = now + 1
    /\ UNCHANGED <<logs, heap, log_queue, pc, op, loc, res, made, pre, client, wire, all_logs, thread, cleared>>

\* The event loop is one thread: it serves one request at a time, from the
\* handler's first statement to its last, and alone calls the registry.
Loop == "t1"

\* ------------------------------------------------------------ test_client
\* The body of the POST of client c that is out: the last it sent.
Posted(c) ==
    LET sent == {n \in DOMAIN wire : wire[n].client = c /\ wire[n].method = "POST"}
    IN wire[CHOOSE n \in sent : \A m \in sent : m <= n].body

\* test_client.py, lines 10-11: cli1 = Client("dummy1", server), then cli2;
\* the service answers the ping of the construction.
Construct(c) ==
    /\ c = "cli2" => client["cli1"].state = "ready"
    /\ \E e \in Endpoints : ClientInit(c, dummy1, e, PingResponse)

\* log_messages, line 15, and Client.log up to requests.post: the thread of
\* client c sends the POST of its next message and waits for the response.
ThreadPost(c, time) ==
    /\ \A d \in Clients : client[d].state = "ready"
    /\ thread[c].at = "idle"
    /\ thread[c].i < MaxMessages
    /\ wire' = Append(wire, Request(c, "POST", CreateUrl(client[c].endpoint, LOG_PATH),
                                    LogEntry(client[c].id, isoformat(time), "INFO",
                                             messages(c)[thread[c].i + 1])))
    /\ thread' = [thread EXCEPT ![c].at = "posted"]
    /\ UNCHANGED <<logs, heap, log_queue, now, pc, op, loc, res, made, pre, client, all_logs,
                   cleared>>

\* The event loop takes the POST of client c and runs LoggingService.log on
\* it: line 118, self.__logger.record(entry).
Serve(c) ==
    /\ thread[c].at = "posted"
    /\ RecordPut(Loop, Posted(c))

\* LoggingService.log, line 119, and the rest of Client.log: the handler
\* returns its response, the loop is free for the next request, and the
\* thread of client c classifies the response and goes on in its loop.
Respond(c) ==
    /\ thread[c].at = "posted"
    /\ pc[Loop] = "done" /\ op[Loop].name = "record" /\ op[Loop].entry = Posted(c)
    /\ LET r == IF res[Loop].kind = "return"
                THEN [status |-> LogResponse(res[Loop]).status_code]
                ELSE [status |-> 500]
       IN client' = [client EXCEPT ![c].call = "log", ![c].response = r,
                                   ![c].result = CheckResponse(r)]
    /\ thread' = [thread EXCEPT ![c] = [i |-> @.i + 1, at |-> "idle"]]
    /\ pc' = [pc EXCEPT ![Loop] = "idle"]
    /\ op' = [op EXCEPT ![Loop] = NoOp]
    /\ res' = [res EXCEPT ![Loop] = NoRes]
    /\ pre' = [i \in Ids |-> IF Contains(logs, i) THEN Len(Retrieve(logs, heap, i)) ELSE -1]
    /\ UNCHANGED <<logs, heap, log_queue, now, loc, made, wire, all_logs, cleared>>

\* A request to clear the pending queue has been answered.
QueueCleared == op[Loop].name = "clear_log_queue" /\ Join

Next ==
    \/ Tick
    \/ Join
    \/ \E e \in Entries : RecordPut(Loop, e)
    \/ RecordLogCheck(Loop)
    \/ RecordCreate(Loop)
    \/ RecordLoad(Loop)
    \/ RecordAppend(Loop)
    \/ \E i \in Ids : RetrieveLogs(Loop, i)
    \/ Services(Loop)
    \/ \E i \in Ids : ClearServiceCheck(Loop, i)
    \/ ClearServiceDel(Loop)
    \/ ClearLogs(Loop)
    \/ ClearLogQueue(Loop)
    \/ LogQueue(Loop)
    \/ GetAllItems(Loop)
    \/ ExportItems(Loop)
    \/ ItemsNext(Loop)

\* Threads: a switch may fall between any two statements.
NextThreads ==
    \/ Join
    \/ \E t \in Tasks : \E e \in Entries : RecordPut(t, e)
    \/ \E t \in Tasks : RecordLogCheck(t)
    \/ \E t \in Tasks : RecordCreate(t)
    \/ \E t \in Tasks : RecordLoad(t)
    \/ \E t \in Tasks : RecordAppend(t)
    \/ \E t \in Tasks : \E i \in Ids : RetrieveLogs(t, i)
    \/ \E t \in Tasks : Services(t)
    \/ \E t \in Tasks : \E i \in Ids : ClearServiceCheck(t, i)
    \/ \E t \in Tasks : ClearServiceDel(t)
    \/ \E t \in Tasks : ClearLogs(t)
    \/ \E t \in Tasks : ClearLogQueue(t)
    \/ \E t \in Tasks : LogQueue(t)
    \/ \E t \in Tasks : GetAllItems(t)
    \/ \E t \in Tasks : ExportItems(t)
    \/ \E t \in Tasks : ItemsNext(t)

\* The clients against an endpoint that answers as it likes.
NextClient ==
    \/ \E c \in Clients : \E i \in Ids : \E e \in Endpoints : \E o \in Outcomes :
          ClientInit(c, i, e, o)
    \/ \E c \in Clients : \E o \in Outcomes : ClientPing(c, o)
    \/ \E c \in Clients : \E m \in Messages : \E l \in Levels :
          \E n \in ClientTimes : \E o \in Outcomes : ClientLog(c, m, l, n, o)

\* A program that owns the Logger object and calls it from one thread: it
\* keeps what get_all() returned while it records and clears.
NextOwner ==
    \/ Join
    \/ \E e \in Entries : RecordPut(Loop, e)
    \/ RecordLogCheck(Loop)
    \/ RecordCreate(Loop)
    \/ RecordLoad(Loop)
    \/ RecordAppend(Loop)
    \/ \E i \in Ids : ClearServiceCheck(Loop, i)
    \/ ClearServiceDel(Loop)
    \/ ClearLogs(Loop)
    \/ GetAll(Loop)

\* test_client.py against the service: two clients of one identifier, a
\* thread each, and the event loop that serves their requests one at a time;
\* now and then a request to clear the pending queue is served as well.
NextShared ==
    \/ \E c \in Clients : Construct(c)
    \/ \E c \in Clients : \E n \in ClientTimes : ThreadPost(c, n)
    \/ \E c \in Clients : Serve(c)
    \/ RecordLogCheck(Loop)
    \/ RecordCreate(Loop)
    \/ RecordLoad(Loop)
    \/ RecordAppend(Loop)
    \/ \E c \in Clients : Respond(c)
    \/ ClearLogQueue(Loop)
    \/ QueueCleared

Spec == Init /\ [][Next]_vars
SpecShared == Init /\ [][NextShared]_vars
SpecOwner == Init /\ [][NextOwner]_vars
SpecClient == Init /\ [][NextClient]_vars
SpecThreads == Init /\ [][NextThreads]_vars

\* ------------------------------------------------------------ claims
Quiet == \A t \in Tasks : Idle(t)

ToSet(s) == {s[i] : i \in DOMAIN s}

\* C1: retrieve(id) is the lines that the record calls for id returned since
\* id was last cleared, in the order of the calls and as many as the calls;
\* the calls for other identifiers do not show in it.
C1_RetrieveInCallOrder ==
    Quiet =>
        /\ \A i \in Ids : StrAll(Retrieve(logs, heap, i)) = made[i]
        /\ \A t \in Tasks :
              (pc[t] = "done" /\ op[t].name = "retrieve")
                  => res[t] = Returned("", made[op[t].id])

\* C1 witness: retrieve returned two different lines of one identifier while
\* the other identifier holds a line too.
C1_Witness ==
    \E t \in Tasks : \E i \in Ids :
        /\ pc[t] = "done" /\ op[t].name = "retrieve" /\ op[t].id = i
        /\ Len(res[t].lines) = 2 /\ res[t].lines[1] # res[t].lines[2]
        /\ \E j \in Ids \ {i} : made[j] # <<>>

\* C2: when all callers made a record call for one identifier at the same
\* time and all have returned, the identifier's list is longer by exactly
\* the number of the calls.
C2_NoEntryLost ==
    \A i \in Ids :
        (\A t \in Tasks : /\ pc[t] = "done" /\ op[t].name = "record"
                          /\ op[t].id = i /\ res[t].kind = "return")
            => Len(Retrieve(logs, heap, i))
                   = (IF pre[i] < 0 THEN 0 ELSE pre[i]) + Cardinality(Tasks)

\* C3: a record and a clear_service_logs for the same stored identifier, made
\* at the same time, end with the record returned and the identifier either
\* absent or holding exactly the new line.
C3_ClearVersusRecord ==
    \A r \in Tasks : \A c \in Tasks \ {r} :
        (/\ pc[r] = "done" /\ op[r].name = "record"
         /\ pc[c] = "done" /\ op[c].name = "clear_service_logs"
         /\ op[c].id = op[r].id
         /\ pre[op[r].id] >= 0)
            => /\ res[r].kind = "return"
               /\ res[c].kind = "return"
               /\ \/ ~Contains(logs, op[r].id)
                  \/ StrAll(Retrieve(logs, heap, op[r].id)) = <<res[r].line>>

\* C4: no record call is ever left waiting on the pending queue: each one
\* goes on to return its line.
C4_RecordNeverSuspends == \A t \in Tasks : pc[t] # "not_full_wait"

\* C5: a get_all or an export made while record and clear calls are made
\* completes without error and reports every identifier at most once.
C5_SnapshotCompletes ==
    \A t \in Tasks :
        (pc[t] = "done" /\ op[t].name \in {"get_all", "export"})
            => /\ res[t].kind = "return"
               /\ \A m, n \in DOMAIN res[t].items :
                      res[t].items[m].id = res[t].items[n].id => m = n

Posts(c) == {n \in DOMAIN wire : wire[n].client = c /\ wire[n].method = "POST"}

\* C6: a Client is constructed if and only if the ping of its construction
\* got a response with a status code in [200, 300); otherwise construction
\* ends in a connection error, no Client exists and no POST of that client
\* is ever sent.
C6_ConstructedIffPingSucceeds ==
    \A c \in Clients :
        client[c].state # "none" =>
            /\ client[c].state = "ready"
                   <=> (/\ client[c].pinged # NoResponse
                        /\ client[c].pinged.status \in 200..299)
            /\ client[c].state # "ready"
                   => /\ client[c].state = "failed"
                      /\ client[c].error \in {"ConnectionError", "requests.ConnectionError"}
                      /\ Posts(c) = {}

\* C6 witness: one client failed on a response with status 300 while the
\* other was constructed and has posted.
C6_Witness ==
    \E c \in Clients : \E d \in Clients \ {c} :
        /\ client[c].state = "failed" /\ client[c].pinged.status = 300
        /\ client[d].state = "ready" /\ Posts(d) # {}
        /\ Len(wire) = MaxWire

\* C7: get_services() lists exactly the identifiers with a record call since
\* their last clear, each once; a retrieve adds none.
C7_ServicesAreRecordedIds ==
    Quiet =>
        /\ ToSet(GetServices(logs)) = {i \in Ids : made[i] # <<>>}
        /\ Len(GetServices(logs)) = Cardinality(ToSet(GetServices(logs)))
        /\ \A t \in Tasks :
              (pc[t] = "done" /\ op[t].name = "get_services")
                  => /\ res[t].kind = "return"
                     /\ ToSet(res[t].lines) = {i \in Ids : made[i] # <<>>}
                     /\ Len(res[t].lines) = Cardinality(ToSet(res[t].lines))

\* C7 witness: get_services returned one identifier while the pending queue
\* still holds an entry of the other one, which was recorded and cleared.
C7_Witness ==
    \E t \in Tasks :
        /\ pc[t] = "done" /\ op[t].name = "get_services"
        /\ Len(res[t].lines) = 1
        /\ \E n \in DOMAIN log_queue : log_queue[n].id # res[t].lines[1]

\* C8: the line record returns carries the entry's own timestamp whenever
\* the entry has one.
C8_EntryTimestampRendered ==
    \A t \in Tasks :
        (/\ pc[t] = "done" /\ op[t].name = "record" /\ res[t].kind = "return"
         /\ op[t].entry.timestamp # "")
            => res[t].line = LogStr([message |-> op[t].entry.message,
                                     level |-> op[t].entry.level,
                                     timestamp |-> op[t].entry.timestamp])

\* The steps of a call of clear_service_logs(i) by task t.
ClearServiceStep(t, i) ==
    /\ pc[t] # "done"
    /\ op'[t].name = "clear_service_logs" /\ op'[t].id = i
    /\ pc'[t] # pc[t]

\* C9: clear_service_logs(id) removes id and nothing else: when it returns,
\* retrieve(id) is empty and id is not listed, and no step of it changes the
\* list of another identifier or the order of the others in get_services();
\* a record for an identifier that is not stored ends with a list of exactly
\* the new line.
C9_ClearServiceLogsFrame ==
    /\ [][\A t \in Tasks : \A i \in Ids :
            ClearServiceStep(t, i) =>
                /\ pc'[t] = "done" =>
                      /\ res'[t] = Returned("", <<>>)
                      /\ Retrieve(logs', heap', i) = <<>>
                      /\ \A n \in DOMAIN GetServices(logs') : GetServices(logs')[n] # i
                /\ \A j \in Ids \ {i} :
                      /\ Contains(logs', j) <=> Contains(logs, j)
                      /\ Retrieve(logs', heap', j) = Retrieve(logs, heap, j)
                /\ SelectSeq(GetServices(logs), LAMBDA k : k # i)
                       = SelectSeq(GetServices(logs'), LAMBDA k : k # i)]_vars
    /\ [](\A t \in Tasks :
            (/\ pc[t] = "done" /\ op[t].name = "record" /\ pre[op[t].id] = -1)
                => StrAll(Retrieve(logs, heap, op[t].id)) = <<res[t].line>>)

\* C9 witness: clear_service_logs has removed a stored identifier while the
\* other identifier holds a list.
C9_Witness ==
    \E t \in Tasks : \E i \in Ids :
        /\ pc[t] = "done" /\ op[t].name = "clear_service_logs" /\ op[t].id = i
        /\ pre[i] > 0 /\ ~Contains(logs, i)
        /\ \E j \in Ids \ {i} : Len(Retrieve(logs, heap, j)) > 0

\* A call of retrieve or clear_service_logs by task t for an identifier that
\* is not stored.
UnknownIdCall(t, i) ==
    /\ pc[t] = "idle" /\ pc'[t] # "idle"
    /\ op'[t].name \in {"retrieve", "clear_service_logs"} /\ op'[t].id = i
    /\ ~Contains(logs, i)

\* C10: retrieve and clear_service_logs for an identifier that is not stored
\* return (an empty sequence, nothing) at once, raise nothing and leave the
\* mapping and the pending queue as they were.
C10_UnknownIdIsNoError ==
    [][\A t \in Tasks : \A i \in Ids :
          UnknownIdCall(t, i) =>
              /\ pc'[t] = "done"
              /\ res'[t] = Returned("", <<>>)
              /\ logs' = logs /\ heap' = heap /\ log_queue' = log_queue]_vars

\* C10 witness: clear_service_logs returned for an identifier that was not
\* stored while another identifier and the pending queue hold entries.
C10_Witness ==
    \E t \in Tasks : \E i \in Ids :
        /\ pc[t] = "done" /\ op[t].name = "clear_service_logs" /\ op[t].id = i
        /\ pre[i] = -1 /\ res[t].kind = "return"
        /\ logs # <<>> /\ log_queue # <<>>

\* The call of clear_logs() by task t.
ClearLogsStep(t) ==
    /\ pc[t] = "idle" /\ pc'[t] # "idle"
    /\ op'[t].name = "clear_logs"

\* C11: clear_logs() returns with the mapping empty, from whatever state it
\* is called in, and the mapping stays empty until a record call runs: every
\* get_services() in between returns the empty sequence and every
\* retrieve(id) the empty sequence.
C11_ClearLogsEmptiesMapping ==
    [][/\ \A t \in Tasks :
             ClearLogsStep(t) =>
                 /\ pc'[t] = "done" /\ res'[t] = Returned("", <<>>)
                 /\ logs' = <<>>
                 /\ GetServices(logs') = <<>>
                 /\ \A i \in Ids : Retrieve(logs', heap', i) = <<>>
       /\ (logs = <<>> /\ \A t \in Tasks : op'[t].name # "record") =>
             /\ logs' = <<>>
             /\ \A t \in Tasks :
                   (pc[t] = "idle" /\ pc'[t] = "done"
                        /\ op'[t].name \in {"get_services", "retrieve"})
                       => res'[t] = Returned("", <<>>)]_vars

\* C11 witness: clear_logs has returned on a mapping that held lines of both
\* identifiers, with entries still in the pending queue.
C11_Witness ==
    \E t \in Tasks :
        /\ pc[t] = "done" /\ op[t].name = "clear_logs"
        /\ \A i \in Ids : pre[i] > 0
        /\ logs = <<>> /\ log_queue # <<>>

\* The call of get_log_queue() by task t.
LogQueueStep(t) ==
    /\ pc[t] = "idle" /\ pc'[t] # "idle"
    /\ op'[t].name = "get_log_queue"

ReadOps == {"retrieve", "get_services", "get_all", "get_log_queue", "export"}

\* C13: the pending queue never holds more entries than its capacity; a
\* record call goes past its put only by adding its raw entry to the queue,
\* so that every record call that has returned finds its entry queued; and
\* no step of retrieve, get_services, get_all, get_log_queue or export
\* changes the queue.
C13_QueueBoundedWriteOnly ==
    /\ [](Len(log_queue) <= queue_size)
    /\ [](\A t \in Tasks :
            (pc[t] = "done" /\ op[t].name = "record" /\ res[t].kind = "return")
                => \E n \in DOMAIN log_queue : log_queue[n] = op[t].entry)
    /\ [][\A t \in Tasks :
            /\ (pc[t] = "idle" /\ pc'[t] = "record_log") =>
                   /\ Len(log_queue') = Len(log_queue) + 1
                   /\ log_queue'[Len(log_queue')] = op'[t].entry
                   /\ SubSeq(log_queue', 1, Len(log_queue)) = log_queue
            /\ (pc'[t] \in {"record_create", "record_load", "record_append"}
                     \/ (pc'[t] = "done" /\ op'[t].name = "record"))
                   => pc[t] \in {"record_log", "record_create", "record_load",
                                 "record_append", "done"}
            /\ (pc'[t] # pc[t] /\ op'[t].name \in ReadOps)
                   => log_queue' = log_queue]_vars

\* C13 witness: a record call has returned with its entry the last of a full
\* pending queue.
C13_Witness ==
    \E t \in Tasks :
        /\ pc[t] = "done" /\ op[t].name = "record" /\ res[t].kind = "return"
        /\ Len(log_queue) = queue_size
        /\ log_queue[Len(log_queue)] = op[t].entry

\* C14: what get_all() returned does not change afterwards: the object the
\* caller holds keeps the identifiers and the lines it had at the return,
\* whatever record, clear_logs and clear_service_logs calls follow.
C14_GetAllIsSnapshot ==
    all_logs.ref # "none" => Deref(all_logs) = all_logs.seen

\* A call of ping() or log() of the constructed client c that got a response.
ClientCall(c, method) ==
    /\ client[c].state = "ready"
    /\ Len(wire') = Len(wire) + 1
    /\ wire'[Len(wire')].client = c /\ wire'[Len(wire')].method = method
    /\ client'[c].response # NoResponse

\* C15: ping and log classify the response alike: for every status code the
\* call returns True exactly when the code is in [200, 300) and otherwise
\* the response; it returns no False and raises nothing.
C15_UniformClassification ==
    [][\A c \in Clients : \A method \in {"GET", "POST"} :
          ClientCall(c, method) =>
              /\ client'[c].result = "True"
                     <=> client'[c].response.status \in 200..299
              /\ client'[c].result # "True" => client'[c].result = "Response"]_vars

\* C15 witness: a client was constructed, called ping and then log, and the
\* log call got the response itself for status 300.
C15_Witness ==
    \E c \in Clients :
        /\ client[c].state = "ready"
        /\ Len(wire) = 3 /\ \A n \in DOMAIN wire : wire[n].client = c
        /\ wire[2].method = "GET" /\ wire[3].method = "POST"
        /\ client[c].response.status = 300 /\ client[c].result = "Response"

Last(s) == s[Len(s)]

\* s ends in e.
EndsIn(s, e) ==
    /\ Len(s) >= Len(e)
    /\ SubSeq(s, Len(s) - Len(e) + 1, Len(s)) = e

\* C16: a POST of an entry to the log path is answered with status 201 and
\* the line that is from then on the last of the stored list of the entry's
\* identifier, so that a retrieve which follows returns it as its last
\* element; for an identifier that was not stored the list is exactly that
\* line, and the line ends in '<level>] <message>'.
C16_LogRetrieveRoundTrip ==
    /\ [](\A t \in Tasks :
            (pc[t] = "done" /\ op[t].name = "record") =>
                /\ res[t].kind = "return"
                /\ LogResponse(res[t]).status_code = 201
                /\ LogResponse(res[t]).log = Last(made[op[t].id])
                /\ Last(StrAll(Retrieve(logs, heap, op[t].id))) = LogResponse(res[t]).log
                /\ EndsIn(LogResponse(res[t]).log,
                          op[t].entry.level \o "] " \o op[t].entry.message)
                /\ pre[op[t].id] = -1
                       => StrAll(Retrieve(logs, heap, op[t].id))
                              = <<LogResponse(res[t]).log>>)
    /\ [][\A t \in Tasks : \A i \in Ids :
            (/\ pc[t] = "idle" /\ pc'[t] = "done"
             /\ op'[t].name = "retrieve" /\ op'[t].id = i) =>
                /\ RetrieveResponse(res'[t]).status_code = 200
                /\ RetrieveResponse(res'[t]).logs = StrAll(Retrieve(logs, heap, i))
                /\ made[i] # <<>> => Last(RetrieveResponse(res'[t]).logs) = Last(made[i])]_vars

\* C16 witness: after one POST for an identifier that was not stored, made
\* before the clock moved, a retrieve made after it returns exactly the one
\* line the POST was answered with.
C16_Witness ==
    \E t \in Tasks : \E i \in Ids :
        /\ pc[t] = "done" /\ op[t].name = "retrieve" /\ op[t].id = i
        /\ now = MaxTime
        /\ Len(made[i]) = 1
        /\ RetrieveResponse(res[t]).logs = <<LogStr(RecordLog(LogEntry(i, "", "ERROR", "hello"), 0))>>
        /\ made[i] = RetrieveResponse(res[t]).logs

\* The messages of the lines stored for the clients' identifier.
StoredMessages ==
    [n \in DOMAIN Retrieve(logs, heap, dummy1) |-> Retrieve(logs, heap, dummy1)[n].message]

\* The number of messages of client c whose log call has returned or whose
\* line the handler has appended.
Logged(c) ==
    thread[c].i +
        (IF /\ thread[c].at = "posted" /\ pc[Loop] = "done"
            /\ op[Loop].name = "record" /\ op[Loop].entry = Posted(c)
         THEN 1 ELSE 0)

\* C17: with two clients of one identifier, each logging its messages one
\* after the other from a thread of its own, the stored list of the
\* identifier holds each logged message exactly once, and the messages of
\* each client in the order the client sent them; every log call that has
\* returned returned True.
C17_SharedIdKeepsClientOrder ==
    /\ \A c \in Clients :
          /\ SelectSeq(StoredMessages, LAMBDA m : m \in ToSet(messages(c)))
                 = SubSeq(messages(c), 1, Logged(c))
          /\ thread[c].i > 0 => client[c].result = "True"
    /\ Len(StoredMessages) = SumLen([c \in Clients |-> SubSeq(messages(c), 1, Logged(c))], Clients)

\* C17 witness: a client has logged all its messages and the other client's
\* first message is stored between them.
C17_Witness ==
    \E c \in Clients : \E d \in Clients \ {c} :
        /\ thread[c].i = MaxMessages /\ thread[d].i = 1
        /\ StoredMessages = <<messages(c)[1], messages(d)[1]>> \o SubSeq(messages(c), 2, MaxMessages)

\* The requests a step sends.
Sent == SubSeq(wire', Len(wire) + 1, Len(wire'))

\* C18: every call of a client sends exactly one request, whatever the
\* response to it is and also when there is none: the construction one GET
\* of the ping path, a ping call one GET of the ping path, a log call one
\* POST of the log path and no ping; a construction that failed is followed
\* by no request of that client.
C18_SingleShot ==
    [][\E c \in Clients :
          /\ \A d \in Clients \ {c} : client'[d] = client[d]
          /\ SubSeq(wire', 1, Len(wire)) = wire
          /\ Len(Sent) = 1 /\ Sent[1].client = c
          /\ client[c].state # "failed"
          /\ client'[c].call = "__init__" <=> client[c].state = "none"
          /\ client'[c].call \in {"__init__", "ping"} =>
                 /\ Sent[1].method = "GET"
                 /\ Sent[1].url = CreateUrl(client'[c].endpoint, PING_PATH)
          /\ client'[c].call = "log" =>
                 /\ Sent[1].method = "POST"
                 /\ Sent[1].url = CreateUrl(client[c].endpoint, LOG_PATH)
                 /\ Sent[1].body.id = client[c].id
          /\ client'[c].call \in {"__init__", "ping", "log"}]_cliVars

\* C18 witness: a client was constructed and called log twice with different
\* messages; the second call got no response, and the three requests are all
\* that was sent.
C18_Witness ==
    \E c \in Clients :
        /\ client[c].call = "log" /\ client[c].result = "raise"
        /\ Len(wire) = 3 /\ \A n \in DOMAIN wire : wire[n].client = c
        /\ wire[1].method = "GET" /\ wire[2].method = "POST" /\ wire[3].method = "POST"
        /\ wire[2].body.message # wire[3].body.message

\* A step of a call of one of the operations in names by task t.
StepOf(t, names) ==
    /\ pc[t] # "done" /\ pc'[t] # pc[t]
    /\ op'[t].name \in names

\* C19: clear_log_queue() leaves the pending queue empty and the stored list
\* of every identifier as it was; no step of clear_logs() or of
\* clear_service_logs(id) changes the pending queue.
C19_ClearsAreIndependent ==
    [][\A t \in Tasks :
          /\ StepOf(t, {"clear_log_queue"}) =>
                 /\ pc'[t] = "done" /\ res'[t] = Returned("", <<>>)
                 /\ log_queue' = <<>>
                 /\ GetServices(logs') = GetServices(logs)
                 /\ \A i \in Ids : Retrieve(logs', heap', i) = Retrieve(logs, heap, i)
          /\ StepOf(t, {"clear_logs", "clear_service_logs"}) =>
                 log_queue' = log_queue]_vars

\* C19 witness: clear_log_queue has emptied the pending queue while both
\* identifiers hold lines.
C19_Witness ==
    \E t \in Tasks :
        /\ pc[t] = "done" /\ op[t].name = "clear_log_queue"
        /\ log_queue = <<>>
        /\ \A i \in Ids : Len(Retrieve(logs, heap, i)) > 0

\* The message and level of each element of a sequence of entries or Logs.
Told(s) == [n \in DOMAIN s |-> [message |-> s[n].message, level |-> s[n].level]]

\* The stored list of i has grown in the step.
Grows(i) == Len(Retrieve(logs', heap', i)) > Len(Retrieve(logs, heap, i))

\* C20: as long as no clear operation was called, the pending queue changes
\* only by a record call adding its entry at the end, and when a record call
\* has returned the queue ends with its entry, is as long as all stored
\* lists together and holds for each identifier the entries of its stored
\* lines in their order; and in every run a stored list grows only by the
\* step of a record call whose entry was queued before.
C20_QueueStoreDuality ==
    /\ [](\A t \in Tasks :
            (~cleared /\ pc[t] = "done" /\ op[t].name = "record") =>
                /\ res[t].kind = "return"
                /\ Len(log_queue) = SumLen([i \in Ids |-> Retrieve(logs, heap, i)], Ids)
                /\ Last(log_queue) = op[t].entry
                /\ \A i \in Ids :
                      Told(SelectSeq(log_queue, LAMBDA e : e.id = i))
                          = Told(Retrieve(logs, heap, i)))
    /\ [][~cleared' =>
            \/ log_queue' = log_queue
            \/ \E t \in Tasks :
                  /\ pc[t] = "idle" /\ pc'[t] = "record_log"
                  /\ log_queue' = Append(log_queue, op'[t].entry)]_vars
    /\ [][\A i \in Ids :
            Grows(i) =>
                \E t \in Tasks :
                    /\ pc[t] = "record_append" /\ op[t].id = i
                    /\ log_queue # <<>> /\ Last(log_queue) = op[t].entry
                    /\ Told(Retrieve(logs', heap', i))
                           = Append(Told(Retrieve(logs, heap, i)),
                                    [message |-> op[t].entry.message,
                                     level |-> op[t].entry.level])]_vars

\* C20 witness: no clear operation was called, a record call has returned
\* and the pending queue is full of entries of both identifiers.
C20_Witness ==
    \E t \in Tasks :
        /\ ~cleared
        /\ pc[t] = "done" /\ op[t].name = "record" /\ res[t].kind = "return"
        /\ Len(log_queue) = queue_size
        /\ log_queue[1].id # log_queue[queue_size].id

\* Task t, waiting in the put of its record call, goes on.
Released(t) == NextThreads /\ pc'[t] # "not_full_wait"

\* C21: a record call that waits because the pending queue was at capacity
\* is released by clear_log_queue: once the queue has room again the waiting
\* call can take its next step, towards inserting its entry, appending its
\* Log and returning.
C21_ClearReleasesBlockedRecord ==
    \A t \in Tasks :
        (pc[t] = "not_full_wait" /\ Len(log_queue) < queue_size)
            => ENABLED Released(t)

====
